---- MODULE Spec2Model ----
(***************************************************************************)
(* A model of swagger_gin's type-to-schema synthesis (swagger/swagger.go,  *)
(* the enum helpers) as a call-stack machine over a small universe of Go   *)
(* types, plus small machines for the pure helpers.                        *)
(*                                                                         *)
(* Strings that the code splits or concatenates (type names, references,   *)
(* paths) are sequences of tokens; a Go type is the sequence of its        *)
(* constructors ending in its base type: <<"ptr","Node">> is *Node,        *)
(* <<"map","any">> is map[string]interface{}, <<>> is the nil interface.   *)
(***************************************************************************)
EXTENDS Integers, Sequences, FiniteSets, TLC

VARIABLES
    route,        \* the route being documented: [model, resp] (router.Router Model / Response)
    holder,       \* field list of the struct type Holder (the input struct under test)
    schemas,      \* swagger.OpenAPI.Components.Schemas: title -> SchemaRef
    customFuncs,  \* router.Validate's custom type funcs: Go type -> registered closure
    stack,        \* the Go call stack of the walker, innermost frame last
    ret,          \* the values returned by the call that returned last
    pc,           \* position of getPaths / process status
    parameters,   \* result of getParametersByModel for the route
    pass,         \* number of BuildOpenAPI passes started
    firstDoc,     \* the document produced by the first pass
    probe,        \* last runtime value fed through a registered custom type func
    path,         \* fixPath: input path, a sequence of characters
    fixed,        \* fixPath: output path
    typeNames,    \* removePackageName: the reflect names of two types
    titles,       \* removePackageName: the titles computed for them
    arrays,       \* the backing arrays of the groups' slices, by address
    groups,       \* the Group values created, in order of creation
    subApps,      \* SwaGin.subApps of the root application
    hooks,        \* the root application's beforeInitFunc / afterInitFunc are set
    events        \* what start-up has done, in order: hooks, init of an app, serving

nameVars == <<typeNames, titles>>

groupVars == <<arrays, groups>>

startVars == <<subApps, hooks, events>>

\* the variables of the machines beside the walker and fixPath
sideVars == <<nameVars, groupVars, startVars>>

vars == <<route, holder, schemas, customFuncs, stack, ret, pc, parameters,
          pass, firstDoc, probe, path, fixed, sideVars>>

walkVars == <<route, holder, schemas, customFuncs, stack, ret, pc, parameters,
              pass, firstDoc, probe>>

----------------------------------------------------------------------------
(* Bounds *)

MaxStack == 7        \* frames the goroutine stack holds before Go's fatal stack overflow
MaxExtra == 1        \* fields of Holder after the first
MaxPasses == 2       \* BuildOpenAPI passes
MaxPathLen == 5      \* characters of a path given to fixPath

----------------------------------------------------------------------------
(* Constants of the source *)

DEFAULT == "default"
VALIDATE == "validate"
DESCRIPTION == "description"
QUERY == "query"
FORM == "form"
URI == "uri"
HEADER == "header"
COOKIE == "cookie"
JSON == "json"

TagKeys == {DEFAULT, VALIDATE, DESCRIPTION, QUERY, FORM, URI, HEADER, COOKIE, JSON}

----------------------------------------------------------------------------
(* Generic helpers on sequences *)

Last(s) == s[Len(s)]

Front(s) == SubSeq(s, 1, Len(s) - 1)

Range(s) == {s[i] : i \in 1..Len(s)}

Count(s, x) == Cardinality({i \in 1..Len(s) : s[i] = x})

\* all permutations of 1..n, as sequences
Perms(n) == {p \in [1..n -> 1..n] : \A i, j \in 1..n : p[i] = p[j] => i = j}

\* set a key of a Go map
MapSet(m, k, v) == (k :> v) @@ m

EmptyMap == [k \in {} |-> k]

----------------------------------------------------------------------------
(* Go types (reflect.Type) *)

NilType == <<>>

PrimitiveKinds == {"int", "int8", "int16", "int32", "int64",
                   "uint", "uint8", "uint16", "uint32", "uint64",
                   "float32", "float64", "string", "bool"}

StructBases == {"Time", "OtherTime", "Event", "FileHeader", "Leaf", "Node", "A", "B",
                "Holder", "Page", "Pair"}

EnumBases == {"Status", "Level"}

\* reflect.Kind of a base (named or predeclared) type
BaseKind(b) ==
    CASE b \in PrimitiveKinds -> b
      [] b \in StructBases -> "struct"
      [] b = "Status" -> "int"         \* type Status int, with Enums()
      [] b = "Level" -> "uint8"        \* type Level uint8, with Enums()
      [] b = "UserID" -> "int64"       \* type UserID int64, no Enums()
      [] b = "any" -> "interface"      \* interface{}
      [] b = "complex128" -> "complex128"
      [] b = "chan" -> "chan"          \* chan int
      [] OTHER -> "invalid"

\* reflect.Type.Kind
Kind(t) == IF Len(t) > 1 THEN t[1] ELSE BaseKind(t[1])

\* reflect.Type.Elem of a pointer, slice or map type
Elem(t) == Tail(t)

\* reflect.Type.Name: the declared name, empty for an unnamed composite type and for
\* chan int; an instantiated generic type has its type arguments, with their package
\* paths, in its name: Page stands for Page[a.Item]. The name has no package:
\* OtherTime stands for a struct type Time of a package other than time.
TypeName(t) ==
    IF Len(t) # 1 \/ t[1] \in {"any", "chan"} THEN <<>>
    ELSE IF t[1] = "Page" THEN <<"Page", "[", "a", ".", "Item", "]">>
    ELSE IF t[1] = "OtherTime" THEN <<"Time">>
    ELSE <<t[1]>>

\* the type implements EnumAble (a pointer to an enum type has its methods too)
IsEnumAble(t) ==
    \/ Len(t) = 1 /\ t[1] \in EnumBases
    \/ Len(t) = 2 /\ t[1] = "ptr" /\ t[2] \in EnumBases

\* val.Enums(): the name -> value mapping of an enum type, as the list of its pairs
Enums(b) ==
    CASE b = "Status" -> <<[name |-> "A", value |-> 1], [name |-> "B", value |-> 2]>>
      [] b = "Level" -> <<[name |-> "Low", value |-> 0], [name |-> "High", value |-> 1]>>
      [] OTHER -> <<>>

----------------------------------------------------------------------------
(* Struct tags (structtag.Parse / Tags.Get): a tag value is the list of its  *)
(* comma-separated pieces; Tag.Name is the first piece; <<>> is "no tag".   *)

NoTags == [k \in TagKeys |-> <<>>]

HasTag(tags, key) == tags[key] # <<>>

TagName(tags, key) == tags[key][1]

Named(n) == (JSON :> <<n>>) @@ (FORM :> <<n>>) @@ NoTags

Field(n, t, tags) == [name |-> n, type |-> t, exported |-> TRUE, tags |-> tags]

Unexported(n, t, tags) == [name |-> n, type |-> t, exported |-> FALSE, tags |-> tags]

\* reflect.Type.Field(i) for i in 1..NumField, for the struct types of the universe
StructFields(b, h) ==
    CASE b = "Holder" -> h
      [] b = "Leaf" ->
            <<Field("Name", <<"string">>,
                    (VALIDATE :> <<"required">>) @@ (DESCRIPTION :> <<"leaf name">>)
                        @@ Named("name"))>>
      [] b = "Node" -> <<Field("Next", <<"ptr", "Node">>, Named("next"))>>
      [] b = "A" -> <<Field("B", <<"ptr", "B">>, Named("b"))>>
      [] b = "B" -> <<Field("A", <<"ptr", "A">>, Named("a"))>>
      [] b = "Page" -> <<Field("Total", <<"int">>, Named("total"))>>
      [] b = "Pair" -> <<Field("First", <<"Page">>, Named("first")),
                         Field("Second", <<"Page">>, Named("second"))>>
      [] b = "Time" -> <<Unexported("wall", <<"uint64">>, NoTags)>>
      [] b = "OtherTime" -> <<Field("Zone", <<"string">>, Named("zone"))>>
      [] b = "Event" -> <<Field("At", <<"ptr", "Time">>, Named("at"))>>
      [] b = "FileHeader" ->
            <<Field("Filename", <<"string">>, NoTags),
              Field("Size", <<"int64">>, NoTags),
              Unexported("content", <<"slice", "uint8">>, NoTags)>>
      [] OTHER -> <<>>

----------------------------------------------------------------------------
(* openapi3.Schema and openapi3.SchemaRef values *)

NilSchema == [isnil |-> TRUE]            \* a nil *openapi3.Schema

NoRef == [absent |-> TRUE]               \* a nil *openapi3.SchemaRef

NoAddl == [has |-> FALSE, schema |-> NoRef]

NoMin == "none"

Schema0 ==
    [typ |-> "", format |-> "", min |-> NoMin, title |-> <<>>,
     enum |-> <<>>, varnames |-> <<>>, props |-> EmptyMap, required |-> <<>>,
     items |-> NoRef, addl |-> NoAddl, desc |-> "", default |-> ""]

NewSchemaRef(ref, value) == [ref |-> ref, value |-> value]

NewIntegerSchema == [Schema0 EXCEPT !.typ = "integer"]
NewInt32Schema == [Schema0 EXCEPT !.typ = "integer", !.format = "int32"]
NewInt64Schema == [Schema0 EXCEPT !.typ = "integer", !.format = "int64"]
NewFloat64Schema == [Schema0 EXCEPT !.typ = "number"]
NewStringSchema == [Schema0 EXCEPT !.typ = "string"]
NewBoolSchema == [Schema0 EXCEPT !.typ = "boolean"]
NewDateTimeSchema == [Schema0 EXCEPT !.typ = "string", !.format = "date-time"]
NewBytesSchema == [Schema0 EXCEPT !.typ = "string", !.format = "byte"]
NewObjectSchema == [Schema0 EXCEPT !.typ = "object"]
NewArraySchema == [Schema0 EXCEPT !.typ = "array"]

WithMin0(s) == [s EXCEPT !.min = "0"]

----------------------------------------------------------------------------
(* Pure helpers of swagger.go *)

\* getBasicSchemaByType with the minimum of the unsigned 32 bit case forgotten
getBasicSchemaByTypeNoMin(kind) ==
    CASE kind \in {"int", "int8", "int16"} -> NewIntegerSchema
      [] kind \in {"uint", "uint8", "uint16"} -> WithMin0(NewIntegerSchema)
      [] kind \in {"int32", "uint32"} -> NewInt32Schema
      [] kind = "int64" -> NewInt64Schema
      [] kind = "uint64" -> WithMin0(NewInt64Schema)
      [] kind = "string" -> NewStringSchema
      [] kind = "float32" -> [NewFloat64Schema EXCEPT !.format = "float"]
      [] kind = "float64" -> [NewFloat64Schema EXCEPT !.format = "double"]
      [] kind = "bool" -> NewBoolSchema
      [] OTHER -> NilSchema

\* getBasicSchemaByType: a switch on the kind with no default, so any other kind
\* leaves the schema nil
getBasicSchemaByType(kind) ==
    CASE kind \in {"int", "int8", "int16"} -> NewIntegerSchema
      [] kind \in {"uint", "uint8", "uint16"} -> WithMin0(NewIntegerSchema)
      [] kind = "int32" -> NewInt32Schema
      [] kind = "uint32" -> WithMin0(NewInt32Schema)
      [] kind = "int64" -> NewInt64Schema
      [] kind = "uint64" -> WithMin0(NewInt64Schema)
      [] kind = "string" -> NewStringSchema
      [] kind = "float32" -> [NewFloat64Schema EXCEPT !.format = "float"]
      [] kind = "float64" -> [NewFloat64Schema EXCEPT !.format = "double"]
      [] kind = "bool" -> NewBoolSchema
      [] OTHER -> NilSchema

\* getSchemaByValue's type switch matches these dynamic types without a call
IsDirectType(t) ==
    \/ Len(t) = 1 /\ t[1] \in PrimitiveKinds \cup {"Time"}
    \/ t \in {<<"slice", "uint8">>, <<"ptr", "FileHeader">>, <<"slice", "ptr", "FileHeader">>}

\* getSchemaByValue, the cases of the type switch that build the schema in place
DirectSchema(t) ==
    CASE t \in {<<"int">>, <<"int8">>, <<"int16">>} -> NewIntegerSchema
      [] t \in {<<"uint">>, <<"uint8">>, <<"uint16">>} -> WithMin0(NewIntegerSchema)
      [] t = <<"int32">> -> NewInt32Schema
      [] t = <<"uint32">> -> WithMin0(NewInt32Schema)
      [] t = <<"int64">> -> NewInt64Schema
      [] t = <<"uint64">> -> WithMin0(NewInt64Schema)
      [] t = <<"string">> -> NewStringSchema
      [] t = <<"Time">> -> NewDateTimeSchema
      [] t = <<"float32">> -> [NewFloat64Schema EXCEPT !.format = "float"]
      [] t = <<"float64">> -> [NewFloat64Schema EXCEPT !.format = "double"]
      [] t = <<"bool">> -> NewBoolSchema
      [] t = <<"slice", "uint8">> -> NewBytesSchema
      [] t = <<"ptr", "FileHeader">> -> [NewStringSchema EXCEPT !.format = "binary"]
      [] t = <<"slice", "ptr", "FileHeader">> ->
            [NewArraySchema EXCEPT
                !.items = NewSchemaRef(<<>>, [Schema0 EXCEPT !.typ = "string",
                                                            !.format = "binary"])]

\* NewEnumSchema: the base schema of an enum by kind; any other kind panics
EnumKinds == PrimitiveKinds

NewEnumSchema(kind) ==
    CASE kind = "bool" -> NewBoolSchema
      [] kind \in {"int8", "int16", "int", "uint8", "uint16", "uint"} -> NewIntegerSchema
      [] kind \in {"int32", "uint32"} -> NewInt32Schema
      [] kind \in {"int64", "uint64"} -> NewInt64Schema
      [] kind = "float32" -> [NewFloat64Schema EXCEPT !.format = "float"]
      [] kind = "float64" -> [NewFloat64Schema EXCEPT !.format = "double"]
      [] kind = "string" -> NewStringSchema

\* generateRefName
generateRefName(structName) == <<"#/components/schemas/">> \o structName

\* strings.Split(name, sep)[last]: the tokens after the last separator
AfterLast(name, sep) ==
    LET at == {i \in 1..Len(name) : name[i] = sep}
    IN  IF at = {} THEN name
        ELSE SubSeq(name, (CHOOSE i \in at : \A j \in at : j <= i) + 1, Len(name))

\* strings.Split(name, sep)[0]: the tokens before the first separator
BeforeFirst(name, sep) ==
    LET at == {i \in 1..Len(name) : name[i] = sep}
    IN  IF at = {} THEN name
        ELSE SubSeq(name, 1, (CHOOSE i \in at : \A j \in at : i <= j) - 1)

TrimSuffix(name, tok) ==
    IF Len(name) > 0 /\ Last(name) = tok THEN Front(name) ELSE name

\* removePackageName
removePackageName(name) ==
    IF ~(Len(name) > 0 /\ Last(name) = "]")
    THEN AfterLast(name, ".")
    ELSE TrimSuffix(AfterLast(name, "."), "]") \o BeforeFirst(name, "[")

\* isBuiltinType
isBuiltinType(t) ==
    Kind(t) \in PrimitiveKinds \cup {"uintptr", "complex64", "complex128", "unsafepointer"}

\* isRequiredTags: splits the validate tag's Name, which is the tag's first piece
isRequiredTags(tags) ==
    HasTag(tags, VALIDATE) /\ TagName(tags, VALIDATE) = "required"

----------------------------------------------------------------------------
(* The walker's call stack *)

NoParam == [absent |-> TRUE]

Frame0 ==
    [fn |-> "", arg |-> NilType, typ |-> NilType, req |-> FALSE, i |-> 1, pc |-> "",
     schema |-> NilSchema, ref |-> <<>>, fname |-> "", fref |-> <<>>,
     fschema |-> NilSchema, param |-> NoParam]

NoRet == [ref |-> <<>>, schema |-> NilSchema, alias |-> <<>>]

Top == stack[Len(stack)]

SetTop(f) == [stack EXCEPT ![Len(stack)] = f]

\* Deref without the replacement of a nil pointer by its pointee's zero value
DerefNever(t) == t

\* the dereference every walker function starts with
Deref(t) == IF t # NilType /\ Kind(t) = "ptr" THEN Elem(t) ELSE t

\* the dynamic type of reflect.Value.Interface() for a zero value of static type t:
\* a nil interface has no dynamic type
IfaceType(t) == IF Kind(t) = "interface" THEN NilType ELSE t

\* reflect.Type.NumField / Field(i)
Fields(t) == IF t # NilType /\ Kind(t) = "struct" THEN StructFields(t[1], holder) ELSE <<>>

\* frames that only hand their callee's result on are popped with it
RECURSIVE Unwind(_)
Unwind(stk) ==
    IF stk # <<>> /\ Last(stk).pc = "tail" THEN Unwind(Front(stk)) ELSE stk

Return == Unwind(Front(stack))

\* the process is inside the walker and has not failed
Running(fn, at) ==
    /\ pc \notin {"panic", "overflow"}
    /\ stack # <<>>
    /\ Len(stack) <= MaxStack
    /\ Top.fn = fn
    /\ Top.pc = at

\* a panic (or log.Panic) nobody recovers: the process is gone
Panics ==
    /\ pc' = "panic"
    /\ UNCHANGED <<route, holder, schemas, customFuncs, stack, ret, parameters,
                   pass, firstDoc, probe, path, fixed, sideVars>>

\* a step of the walker that may change the stack, the registry, the custom funcs,
\* the returned values and the parameter list
Walks(stk, reg, funcs, r, params) ==
    /\ stack' = stk
    /\ schemas' = reg
    /\ customFuncs' = funcs
    /\ ret' = r
    /\ parameters' = params
    /\ UNCHANGED <<route, holder, pc, pass, firstDoc, probe, path, fixed, sideVars>>

\* Go's runtime kills the process when a call finds the goroutine stack exhausted
StackOverflow ==
    /\ pc \notin {"panic", "overflow"}
    /\ Len(stack) > MaxStack
    /\ pc' = "overflow"
    /\ UNCHANGED <<route, holder, schemas, customFuncs, stack, ret, parameters,
                   pass, firstDoc, probe, path, fixed, sideVars>>

\* checkSchemaExist
checkSchemaExist(reg, name) ==
    \E k \in DOMAIN reg : reg[k].value # NilSchema /\ reg[k].value.title = name

\* the description and default tags overwrite the field schema's attributes
ApplyDescription(s, tags) ==
    IF HasTag(tags, DESCRIPTION) THEN [s EXCEPT !.desc = TagName(tags, DESCRIPTION)] ELSE s

ApplyDefault(s, tags) ==
    IF HasTag(tags, DEFAULT) THEN [s EXCEPT !.default = TagName(tags, DEFAULT)] ELSE s

\* a write through the *openapi3.Schema the call returned reaches the registry entry
\* that holds the same pointer
WriteThrough(reg, alias, s) ==
    IF alias # <<>> /\ alias \in DOMAIN reg
    THEN [reg EXCEPT ![alias] = NewSchemaRef(reg[alias].ref, s)]
    ELSE reg

SetProp(s, name, node) == [s EXCEPT !.props = MapSet(@, name, node)]

----------------------------------------------------------------------------
(* Frames at function entry *)

\* getSchemaByValue(t, request)
CallSV(t, req) == [Frame0 EXCEPT !.fn = "SV", !.arg = t, !.typ = t, !.req = req, !.pc = "enter"]

\* getComponentByModel(model, isRequest): lines 283-310
CallGC(t, req) ==
    [Frame0 EXCEPT !.fn = "GC", !.arg = t, !.typ = Deref(t), !.req = req,
                   !.schema = NewObjectSchema,
                   !.pc = IF t = NilType THEN "nil" ELSE "loop"]

\* getRequestSchemaByModel(model): lines 211-230, 268-278
CallRQ(t) ==
    LET typ == Deref(t)
    IN  [Frame0 EXCEPT !.fn = "RQ", !.arg = t, !.typ = typ, !.req = TRUE,
                       !.schema = IF t # NilType /\ Kind(typ) = "slice"
                                  THEN NewArraySchema ELSE NewObjectSchema,
                       !.pc = CASE t = NilType -> "nil"
                                [] Kind(typ) = "struct" -> "loop"
                                [] Kind(typ) \in {"slice", "map"} -> "elem"
                                [] OTHER -> "else"]

\* getResponseSchemaByModel(model): lines 472-492, 522-532
CallRS(t) ==
    LET typ == Deref(t)
    IN  [Frame0 EXCEPT !.fn = "RS", !.arg = t, !.typ = typ, !.req = FALSE,
                       !.schema = IF t # NilType /\ Kind(typ) = "slice"
                                  THEN NewArraySchema ELSE NewObjectSchema,
                       !.ref = IF t # NilType /\ Kind(typ) = "struct"
                               THEN generateRefName(TypeName(typ)) ELSE <<>>,
                       !.pc = CASE t = NilType -> "nil"
                                [] Kind(typ) = "struct" -> "loop"
                                [] Kind(typ) \in {"slice", "map"} -> "elem"
                                [] OTHER -> "else"]

\* getParametersByModel(model): lines 569-584
CallGP(t) ==
    [Frame0 EXCEPT !.fn = "GP", !.arg = t, !.typ = Deref(t), !.req = TRUE,
                   !.pc = IF t = NilType THEN "nil" ELSE "loop"]

----------------------------------------------------------------------------
(* getSchemaByValue *)

\* the primitive, time, byte and file-upload cases of the type switch
SVDirect ==
    /\ Running("SV", "enter")
    /\ IsDirectType(Top.arg)
    /\ Walks(Return, schemas, customFuncs,
             [ref |-> <<>>, schema |-> DirectSchema(Top.arg), alias |-> <<>>], parameters)

\* the order in which `for k, v := range valEnums` visits the n entries of the map:
\* Go leaves it unspecified and randomises it
RangeOrders(n) == Perms(n)

\* RegisterCustomTypeFunc with a valMap that holds only the first value visited
RegisterFirstValueOnly(funcs, t, name, kind, enums) ==
    IF enums = <<>> THEN funcs
    ELSE MapSet(funcs, t, [name |-> name, kind |-> kind, valMap |-> {enums[1]}])

\* router.Validate.RegisterCustomTypeFunc(fn, enums...): fn is stored under the Go type
\* of every value given; the closure holds name, kind and valMap
RegisterCustomTypeFunc(funcs, t, name, kind, enums) ==
    IF enums = <<>> THEN funcs
    ELSE MapSet(funcs, t, [name |-> name, kind |-> kind, valMap |-> Range(enums)])

\* case EnumAble
SVEnum ==
    /\ Running("SV", "enter")
    /\ ~IsDirectType(Top.arg)
    /\ IsEnumAble(Top.arg)
    /\ LET t == Top.arg
           valEnums == Enums(Last(t))
           name == TypeName(t)
       IN  IF Kind(t) \notin EnumKinds
           THEN Panics     \* Enums() through a nil pointer, NewEnumSchema on kind Ptr
           ELSE \E order \in RangeOrders(Len(valEnums)) :
                  LET enums == [i \in 1..Len(valEnums) |-> valEnums[order[i]].value]
                      names == [i \in 1..Len(valEnums) |-> valEnums[order[i]].name]
                      schema == [NewEnumSchema(Kind(t)) EXCEPT !.title = name,
                                                               !.enum = enums,
                                                               !.varnames = names]
                  IN  Walks(Return,
                            MapSet(schemas, name, NewSchemaRef(<<>>, schema)),
                            RegisterCustomTypeFunc(customFuncs, t, name, Kind(t), enums),
                            [ref |-> generateRefName(name), schema |-> schema,
                             alias |-> name],
                            parameters)

\* default: the value goes to the request or the response walker
SVDefault ==
    /\ Running("SV", "enter")
    /\ ~IsDirectType(Top.arg)
    /\ ~IsEnumAble(Top.arg)
    /\ Walks(Append(SetTop([Top EXCEPT !.pc = "tail"]),
                    IF Top.req THEN CallRQ(Top.arg) ELSE CallRS(Top.arg)),
             schemas, customFuncs, ret, parameters)

----------------------------------------------------------------------------
(* getRequestSchemaByModel and getResponseSchemaByModel *)

\* a nil model: both return an object schema whose Items is an object schema
ModelNil(fn) ==
    /\ Running(fn, "nil")
    /\ Walks(Return, schemas, customFuncs,
             [ref |-> <<>>,
              schema |-> [NewObjectSchema EXCEPT
                             !.items = NewSchemaRef(<<>>, NewObjectSchema)],
              alias |-> <<>>],
             parameters)

\* a slice or map model: the zero value of the element type is walked
ModelElem(fn) ==
    /\ Running(fn, "elem")
    /\ Walks(Append(SetTop([Top EXCEPT !.pc = "items"]),
                    IF fn = "RQ" THEN CallRQ(IfaceType(Elem(Top.typ)))
                                 ELSE CallRS(IfaceType(Elem(Top.typ)))),
             schemas, customFuncs, ret, parameters)

\* ... and becomes Items; the ref declared in the branch shadows the one returned
ModelItems(fn) ==
    /\ Running(fn, "items")
    /\ Walks(Return, schemas, customFuncs,
             [ref |-> <<>>,
              schema |-> [Top.schema EXCEPT !.items = NewSchemaRef(ret.ref, ret.schema)],
              alias |-> <<>>],
             parameters)

\* the struct's fields are done: ref and schema are returned
ModelFinish(fn) ==
    /\ Running(fn, "loop")
    /\ Top.i > Len(Fields(Top.typ))
    /\ Walks(Return, schemas, customFuncs,
             [ref |-> Top.ref, schema |-> Top.schema, alias |-> <<>>], parameters)

RQNil == ModelNil("RQ")
RQElem == ModelElem("RQ")
RQItems == ModelItems("RQ")
RQFinish == ModelFinish("RQ")
RSNil == ModelNil("RS")
RSElem == ModelElem("RS")
RSItems == ModelItems("RS")
RSFinish == ModelFinish("RS")

\* reflect.Value.Interface() panics on a value read from an unexported field; a nil
\* pointer had been replaced by a fresh reflect.New value, which is readable
CanInterface(f) == f.exported \/ Kind(f.type) = "ptr"

\* getRequestSchemaByModel, one field up to its getSchemaByValue call
RQField ==
    /\ Running("RQ", "loop")
    /\ Top.i <= Len(Fields(Top.typ))
    /\ LET f == Fields(Top.typ)[Top.i]
       IN  IF ~HasTag(f.tags, FORM)
           THEN Walks(SetTop([Top EXCEPT !.i = @ + 1]), schemas, customFuncs, ret,
                      parameters)
           ELSE IF ~CanInterface(f)
           THEN Panics
           ELSE Walks(Append(SetTop([Top EXCEPT !.pc = "field"]),
                             CallSV(IfaceType(Deref(f.type)), TRUE)),
                      schemas, customFuncs, ret, parameters)

\* getRequestSchemaByModel, the rest of the field: description, default, the property
RQResume ==
    /\ Running("RQ", "field")
    /\ LET f == Fields(Top.typ)[Top.i]
           fieldSchema == ApplyDefault(ApplyDescription(ret.schema, f.tags), f.tags)
       IN  Walks(SetTop([Top EXCEPT
                            !.schema = SetProp(@, TagName(f.tags, FORM),
                                               NewSchemaRef(ret.ref, fieldSchema)),
                            !.i = @ + 1, !.pc = "loop"]),
                 WriteThrough(schemas, ret.alias, fieldSchema), customFuncs, NoRet,
                 parameters)

\* getRequestSchemaByModel on any other kind hands the model itself, not dereferenced,
\* back to getSchemaByValue
RQElse ==
    /\ Running("RQ", "else")
    /\ Walks(Append(SetTop([Top EXCEPT !.pc = "tail"]), CallSV(Top.arg, TRUE)),
             schemas, customFuncs, ret, parameters)

\* getResponseSchemaByModel, one field up to its getSchemaByValue call: exported
\* fields only, the value not dereferenced
RSField ==
    /\ Running("RS", "loop")
    /\ Top.i <= Len(Fields(Top.typ))
    /\ LET f == Fields(Top.typ)[Top.i]
       IN  IF ~f.exported
           THEN Walks(SetTop([Top EXCEPT !.i = @ + 1]), schemas, customFuncs, ret,
                      parameters)
           ELSE Walks(Append(SetTop([Top EXCEPT !.pc = "field"]),
                             CallSV(IfaceType(f.type), FALSE)),
                      schemas, customFuncs, ret, parameters)

\* getResponseSchemaByModel, the rest of the field: the json tag, required,
\* description, default, the property
RSResume ==
    /\ Running("RS", "field")
    /\ LET f == Fields(Top.typ)[Top.i]
           fieldSchema == ApplyDefault(ApplyDescription(ret.schema, f.tags), f.tags)
       IN  IF ~HasTag(f.tags, JSON)
           THEN Walks(SetTop([Top EXCEPT !.i = @ + 1, !.pc = "loop"]),
                      schemas, customFuncs, NoRet, parameters)
           ELSE Walks(SetTop([Top EXCEPT
                            !.schema = SetProp(
                                [@ EXCEPT !.required =
                                    IF isRequiredTags(f.tags)
                                    THEN Append(@, TagName(f.tags, JSON)) ELSE @],
                                TagName(f.tags, JSON),
                                NewSchemaRef(ret.ref, fieldSchema)),
                            !.i = @ + 1, !.pc = "loop"]),
                      WriteThrough(schemas, ret.alias, fieldSchema), customFuncs, NoRet,
                      parameters)

\* getResponseSchemaByModel on any other kind hands the dereferenced value back to
\* getSchemaByValue
RSElse ==
    /\ Running("RS", "else")
    /\ Walks(Append(SetTop([Top EXCEPT !.pc = "tail"]), CallSV(Top.typ, FALSE)),
             schemas, customFuncs, ret, parameters)

----------------------------------------------------------------------------
(* getComponentByModel *)

\* a nil model: nothing is registered
GCNil ==
    /\ Running("GC", "nil")
    /\ Walks(Return, schemas, customFuncs, NoRet, parameters)

\* the name a field's property is stored under (lines 337-342)
FieldName(f, isRequest) ==
    IF isRequest THEN TagName(f.tags, FORM)
    ELSE IF HasTag(f.tags, JSON) THEN TagName(f.tags, JSON)
    ELSE f.name

\* AddRequired with the Go field name in place of the resolved name
AddRequiredGoName(s, f, fieldName) ==
    IF isRequiredTags(f.tags) THEN [s EXCEPT !.required = Append(@, f.name)] ELSE s

\* lines 344-346: the name joins Required before the field's property exists
AddRequired(s, f, fieldName) ==
    IF isRequiredTags(f.tags) THEN [s EXCEPT !.required = Append(@, fieldName)] ELSE s

\* the additionalProperties of a map field whose value type needs no call (lines 408-421)
MapProperty(t, valueSchema) ==
    [NewObjectSchema EXCEPT
        !.addl = IF Kind(Elem(t)) = "interface"
                 THEN [has |-> TRUE, schema |-> NoRef]
                 ELSE [has |-> FALSE, schema |-> valueSchema]]

\* one field of the struct, up to the first call made for it or, when it needs none,
\* to its property (lines 311-441)
GCField ==
    /\ Running("GC", "loop")
    /\ Top.i <= Len(Fields(Top.typ))
    /\ LET f == Fields(Top.typ)[Top.i]
           skip == [Top EXCEPT !.i = @ + 1]
       IN  IF ~HasTag(f.tags, FORM) /\ Top.req
           THEN Walks(SetTop(skip), schemas, customFuncs, ret, parameters)
           ELSE
           LET fieldType == Deref(f.type)
               fieldName == FieldName(f, Top.req)
               named == [Top EXCEPT !.fname = fieldName,
                                    !.schema = AddRequired(@, f, fieldName)]
               done(node) == [named EXCEPT !.schema = SetProp(@, fieldName, node),
                                           !.i = @ + 1]
               call(at, callee) == Append(SetTop([named EXCEPT !.pc = at]), callee)
           IN  CASE Kind(fieldType) = "struct" /\ TypeName(fieldType) = <<"Time">> ->
                      IF ~CanInterface(f) THEN Panics
                      ELSE Walks(call("time", CallSV(fieldType, Top.req)),
                                 schemas, customFuncs, ret, parameters)
                 [] Kind(fieldType) = "struct" /\ TypeName(fieldType) # <<"Time">> ->
                      IF ~checkSchemaExist(schemas, TypeName(fieldType))
                      THEN Walks(call("struct", CallGC(fieldType, Top.req)),
                                 schemas, customFuncs, ret, parameters)
                      ELSE Walks(SetTop(done(NewSchemaRef(
                                     generateRefName(TypeName(fieldType)), NilSchema))),
                                 schemas, customFuncs, ret, parameters)
                 [] Kind(fieldType) = "slice" ->
                      IF ~CanInterface(f) THEN Panics
                      ELSE Walks(call("slice", CallSV(fieldType, Top.req)),
                                 schemas, customFuncs, ret, parameters)
                 [] Kind(fieldType) = "map" ->
                      IF Kind(Elem(fieldType)) = "struct"
                         /\ ~checkSchemaExist(schemas, TypeName(Elem(fieldType)))
                      THEN Walks(call("map", CallGC(Elem(fieldType), Top.req)),
                                 schemas, customFuncs, ret, parameters)
                      ELSE Walks(SetTop(done(NewSchemaRef(<<>>,
                                     MapProperty(fieldType,
                                         IF Kind(Elem(fieldType)) = "struct"
                                         THEN NewSchemaRef(generateRefName(
                                                  TypeName(Elem(fieldType))), NilSchema)
                                         ELSE NewSchemaRef(<<>>, getBasicSchemaByType(
                                                  Kind(Elem(fieldType)))))))),
                                 schemas, customFuncs, ret, parameters)
                 [] Kind(fieldType) = "interface" ->
                      Walks(SetTop(done(NewSchemaRef(<<>>, NewObjectSchema))),
                            schemas, customFuncs, ret, parameters)
                 [] OTHER ->
                      IF ~CanInterface(f) THEN Panics
                      ELSE Walks(call("default", CallSV(fieldType, Top.req)),
                                 schemas, customFuncs, ret, parameters)

\* the rest of a field after the call made for it has returned
GCResume ==
    /\ Running("GC", Top.pc)
    /\ Top.pc \in {"time", "struct", "slice", "items", "map", "default"}
    /\ LET f == Fields(Top.typ)[Top.i]
           fieldType == Deref(f.type)
           done(node) == [Top EXCEPT !.schema = SetProp(@, Top.fname, node),
                                     !.i = @ + 1, !.pc = "loop",
                                     !.fref = <<>>, !.fschema = NilSchema]
       IN  CASE Top.pc = "time" ->
                  \* lines 354-361
                  LET fieldSchema == [ret.schema EXCEPT !.format = "date-time",
                                                        !.typ = "string"]
                  IN  Walks(SetTop(done(NewSchemaRef(ret.ref, fieldSchema))),
                            WriteThrough(schemas, ret.alias, fieldSchema),
                            customFuncs, NoRet, parameters)
             [] Top.pc = "struct" ->
                  \* lines 366-367
                  Walks(SetTop(done(NewSchemaRef(generateRefName(TypeName(fieldType)),
                                                 NilSchema))),
                        schemas, customFuncs, NoRet, parameters)
             [] Top.pc = "slice" ->
                  IF ~isBuiltinType(Elem(fieldType))
                  THEN \* lines 372-384
                       LET subFieldType == Deref(IfaceType(Elem(fieldType)))
                       IN  IF subFieldType = NilType
                           THEN Panics   \* reflect.TypeOf(nil).Kind()
                           ELSE IF ~checkSchemaExist(schemas, TypeName(subFieldType))
                           THEN Walks(Append(SetTop([Top EXCEPT !.pc = "items",
                                                                !.fref = ret.ref,
                                                                !.fschema = ret.schema]),
                                             CallGC(IfaceType(Elem(fieldType)), Top.req)),
                                      schemas, customFuncs, NoRet, parameters)
                           ELSE Walks(SetTop(done(NewSchemaRef(ret.ref,
                                          [ret.schema EXCEPT !.items = NewSchemaRef(
                                              generateRefName(TypeName(subFieldType)),
                                              NilSchema)]))),
                                      schemas, customFuncs, NoRet, parameters)
                  ELSE \* lines 386-396
                       LET fieldSchema == ApplyDefault(ApplyDescription(ret.schema, f.tags),
                                                       f.tags)
                       IN  Walks(SetTop(done(NewSchemaRef(ret.ref, fieldSchema))),
                                 WriteThrough(schemas, ret.alias, fieldSchema),
                                 customFuncs, NoRet, parameters)
             [] Top.pc = "items" ->
                  \* lines 383-384, 396
                  Walks(SetTop(done(NewSchemaRef(Top.fref,
                            [Top.fschema EXCEPT !.items = NewSchemaRef(
                                generateRefName(TypeName(Deref(Elem(fieldType)))),
                                NilSchema)]))),
                        schemas, customFuncs, NoRet, parameters)
             [] Top.pc = "map" ->
                  \* lines 415, 421-422
                  Walks(SetTop(done(NewSchemaRef(<<>>,
                            MapProperty(fieldType,
                                NewSchemaRef(generateRefName(TypeName(Elem(fieldType))),
                                             NilSchema))))),
                        schemas, customFuncs, NoRet, parameters)
             [] Top.pc = "default" ->
                  \* lines 431-440
                  LET fieldSchema == ApplyDefault(ApplyDescription(ret.schema, f.tags),
                                                  f.tags)
                  IN  Walks(SetTop(done(NewSchemaRef(ret.ref, fieldSchema))),
                            WriteThrough(schemas, ret.alias, fieldSchema),
                            customFuncs, NoRet, parameters)

\* lines 445-451: the schema is stored under its title
RegisterComponent(reg, s, t) ==
    LET title == removePackageName(TypeName(t))
    IN  MapSet(reg, title, NewSchemaRef(<<>>, [s EXCEPT !.title = title]))

GCFinish ==
    /\ Running("GC", "loop")
    /\ Top.i > Len(Fields(Top.typ))
    /\ Walks(Return, RegisterComponent(schemas, Top.schema, Top.typ), customFuncs, NoRet,
             parameters)

----------------------------------------------------------------------------
(* getParametersByModel *)

\* a nil model: the empty list
GPNil ==
    /\ Running("GP", "nil")
    /\ Walks(Return, schemas, customFuncs, NoRet, <<>>)

\* one `if err == nil` block of lines 593-612: the tag, when present, sets In and Name
Locate(parameter, tags, key, in) ==
    IF HasTag(tags, key)
    THEN [parameter EXCEPT !.in = in, !.name = TagName(tags, key)]
    ELSE parameter

Parameter0 == [in |-> "", name |-> "", desc |-> "", required |-> FALSE]

\* lines 592-623: the four location tags are looked up one after the other
ParameterOf(tags) ==
    LET located == Locate(Locate(Locate(Locate(Parameter0, tags, QUERY, "query"),
                                        tags, URI, "path"),
                                 tags, HEADER, "header"),
                          tags, COOKIE, "cookie")
    IN  [located EXCEPT
            !.desc = IF HasTag(tags, DESCRIPTION) THEN TagName(tags, DESCRIPTION) ELSE @,
            !.required = isRequiredTags(tags)]

\* one field up to its getSchemaByValue call; NumField panics on a model that is no
\* struct
GPField ==
    /\ Running("GP", "loop")
    /\ Kind(Top.typ) # "struct" \/ Top.i <= Len(Fields(Top.typ))
    /\ IF Kind(Top.typ) # "struct"
       THEN Panics
       ELSE LET f == Fields(Top.typ)[Top.i]
                parameter == ParameterOf(f.tags)
            IN  IF parameter.in = ""
                THEN Walks(SetTop([Top EXCEPT !.i = @ + 1]), schemas, customFuncs, ret,
                           parameters)
                ELSE IF ~f.exported
                THEN Panics
                ELSE Walks(Append(SetTop([Top EXCEPT !.pc = "field",
                                                     !.param = parameter]),
                                  CallSV(IfaceType(f.type), TRUE)),
                           schemas, customFuncs, ret, parameters)

\* lines 625-636: the default, the schema, the parameter appended
GPResume ==
    /\ Running("GP", "field")
    /\ LET f == Fields(Top.typ)[Top.i]
           schema == ApplyDefault(ret.schema, f.tags)
       IN  Walks(SetTop([Top EXCEPT !.i = @ + 1, !.pc = "loop", !.param = NoParam]),
                 WriteThrough(schemas, ret.alias, schema), customFuncs, NoRet,
                 Append(parameters,
                        [ref |-> ret.ref, in |-> Top.param.in, name |-> Top.param.name,
                         desc |-> Top.param.desc, required |-> Top.param.required,
                         schema |-> NewSchemaRef(<<>>, schema)]))

GPFinish ==
    /\ Running("GP", "loop")
    /\ Kind(Top.typ) = "struct"
    /\ Top.i > Len(Fields(Top.typ))
    /\ Walks(Return, schemas, customFuncs, NoRet, parameters)

----------------------------------------------------------------------------
(* BuildOpenAPI and getPaths, for one route with one response *)

NoDoc == [absent |-> TRUE]

NoProbe == [absent |-> TRUE]

\* getRequestBodyRef: the schema reference of the request body
getRequestBodyRef(name) ==
    NewSchemaRef(generateRefName(removePackageName(name)), NilSchema)

\* getPaths lines 681-688 (the route is a POST, so the body is attached): the name is
\* reflect.TypeOf(r.Model).Name(), of the model's type as given
RequestBody ==
    IF route.model = NilType THEN NoRef ELSE getRequestBodyRef(TypeName(route.model))

\* getResponsesRef: a response with a nil model is left out
getResponsesRef(response) ==
    IF response = NilType THEN <<>>
    ELSE <<NewSchemaRef(generateRefName(removePackageName(TypeName(response))),
                        NilSchema)>>

Document ==
    [schemas |-> schemas, parameters |-> parameters, requestBody |-> RequestBody,
     responses |-> getResponsesRef(route.resp)]

\* BuildOpenAPI: fresh components, then getPaths
BuildOpenAPI ==
    /\ pc \in {"idle", "done"}
    /\ pass < MaxPasses
    /\ pass' = pass + 1
    /\ schemas' = EmptyMap
    /\ parameters' = <<>>
    /\ ret' = NoRet
    /\ pc' = "request"
    /\ probe' = NoProbe
    /\ UNCHANGED <<route, holder, customFuncs, stack, firstDoc, path, fixed, sideVars>>

\* getPaths line 664: swagger.getComponentByModel(r.Model, true)
CallRequestComponent ==
    /\ pc = "request"
    /\ stack = <<>>
    /\ stack' = <<CallGC(route.model, TRUE)>>
    /\ pc' = "response"
    /\ UNCHANGED <<route, holder, schemas, customFuncs, ret, parameters, pass, firstDoc,
                   probe, path, fixed, sideVars>>

\* getPaths lines 665-667: swagger.getComponentByModel(resp.Model, false)
CallResponseComponent ==
    /\ pc = "response"
    /\ stack = <<>>
    /\ stack' = <<CallGC(route.resp, FALSE)>>
    /\ pc' = "parameters"
    /\ UNCHANGED <<route, holder, schemas, customFuncs, ret, parameters, pass, firstDoc,
                   probe, path, fixed, sideVars>>

\* getPaths line 677: swagger.getParametersByModel(model); a nil model is answered
\* before reflection is used
CallParameters ==
    /\ pc = "parameters"
    /\ stack = <<>>
    /\ stack' = <<CallGP(route.model)>>
    /\ pc' = "paths"
    /\ UNCHANGED <<route, holder, schemas, customFuncs, ret, parameters, pass, firstDoc,
                   probe, path, fixed, sideVars>>

\* getPaths returns: the document of this pass is complete
FinishPaths ==
    /\ pc = "paths"
    /\ stack = <<>>
    /\ pc' = "done"
    /\ firstDoc' = IF pass = 1 THEN Document ELSE firstDoc
    /\ UNCHANGED <<route, holder, schemas, customFuncs, stack, ret, parameters, pass,
                   probe, path, fixed, sideVars>>

----------------------------------------------------------------------------
(* The validation layer calls the registered custom type func *)

\* the values a field of an enum type can hold at request time
RuntimeValues == 0..3

\* a Go integer conversion to w bits
ToUnsigned(val, w) == val % (2 ^ w)

ToSigned(val, w) ==
    LET u == val % (2 ^ w) IN IF u >= 2 ^ (w - 1) THEN u - 2 ^ w ELSE u

\* GetEnumVal: gconv converts the value to the Go type of the enum's kind; the
\* runtime values of the model are far inside the range of the 32 and 64 bit kinds
GetEnumVal(kind, val) ==
    CASE kind = "bool" -> IF val = 0 THEN 0 ELSE 1
      [] kind = "int8" -> ToSigned(val, 8)
      [] kind = "int16" -> ToSigned(val, 16)
      [] kind = "uint8" -> ToUnsigned(val, 8)
      [] kind = "uint16" -> ToUnsigned(val, 16)
      [] kind \in {"int", "int32", "int64", "uint", "uint32", "uint64",
                   "float32", "float64", "string"} -> val

\* the closure of lines 191-198
CustomTypeFunc(fn, val) ==
    IF val \in fn.valMap
    THEN [result |-> "accepted", value |-> GetEnumVal(fn.kind, val)]
    ELSE [result |-> "panic", value |-> val]

\* validator: a field whose Go type has a custom type func is passed through it
Validate ==
    /\ pc = "done"
    /\ \E t \in DOMAIN customFuncs, val \in RuntimeValues :
          probe' = [type |-> t, input |-> val, out |-> CustomTypeFunc(customFuncs[t], val)]
    /\ UNCHANGED <<route, holder, schemas, customFuncs, stack, ret, pc, parameters,
                   pass, firstDoc, path, fixed, sideVars>>

----------------------------------------------------------------------------
(* fixPath *)

PathChars == {"/", ":", "a", "0", "_"}

\* the character class [0-9a-zA-Z]
IsAlnum(c) == c \in {"a", "0"}

\* the end of the longest run of [0-9a-zA-Z] starting at position i (i - 1 when empty)
RECURSIVE RunEnd(_, _)
RunEnd(p, i) == IF i <= Len(p) /\ IsAlnum(p[i]) THEN RunEnd(p, i + 1) ELSE i - 1

\* regexp.MustCompile("/:([0-9a-zA-Z]+)").ReplaceAllString(path, "/{${1}}"), scanning
\* from position i: leftmost matches, each as long as it can be
RECURSIVE ReplaceFrom(_, _)
ReplaceFrom(p, i) ==
    IF i > Len(p) THEN <<>>
    ELSE IF p[i] = "/" /\ i + 2 <= Len(p) /\ p[i + 1] = ":" /\ IsAlnum(p[i + 2])
    THEN LET e == RunEnd(p, i + 2)
         IN  <<"/", "{">> \o SubSeq(p, i + 2, e) \o <<"}">> \o ReplaceFrom(p, e + 1)
    ELSE <<p[i]>> \o ReplaceFrom(p, i + 1)

fixPath(p) == ReplaceFrom(p, 1)

\* getPaths line 712: the path is rewritten when the path item is stored
SetPath ==
    /\ pc = "path"
    /\ fixed' = fixPath(path)
    /\ pc' = "pathset"
    /\ UNCHANGED <<route, holder, schemas, customFuncs, stack, ret, parameters, pass,
                   firstDoc, probe, path, sideVars>>

----------------------------------------------------------------------------
(* The inputs *)

Specimen(t, tags) == [type |-> t, exported |-> TRUE, tags |-> tags]

WithTag(key, value, tags) == (key :> value) @@ tags

LocationKeys == {QUERY, URI, HEADER, COOKIE}

\* a field bound to the locations in keys, each under its own name
Located(keys) == [k \in TagKeys |-> IF k \in keys THEN <<k>> ELSE <<>>]

OtherTypes ==
    {<<"complex128">>, <<"chan">>, <<"UserID">>, <<"map", "complex128">>,
     <<"map", "slice", "string">>, <<"Status">>, <<"Level">>, <<"ptr", "Status">>,
     <<"Time">>, <<"ptr", "Time">>, <<"Leaf">>, <<"ptr", "Leaf">>, <<"Node">>,
     <<"ptr", "A">>, <<"slice", "string">>, <<"slice", "Leaf">>,
     <<"slice", "ptr", "Leaf">>, <<"slice", "uint8">>, <<"slice", "ptr", "FileHeader">>,
     <<"slice", "any">>, <<"slice", "Status">>, <<"map", "any">>, <<"map", "Leaf">>,
     <<"any">>, <<"ptr", "string">>, <<"OtherTime">>, <<"slice", "Event">>}

Described(tags) == WithTag(DESCRIPTION, <<"d">>, WithTag(DEFAULT, <<"v">>, tags))

Required(tags) == WithTag(VALIDATE, <<"required">>, tags)

FirstSpecimens ==
    {Specimen(<<k>>, Named("p")) : k \in PrimitiveKinds}
    \cup {Specimen(<<"map", k>>, Named("m")) : k \in PrimitiveKinds}
    \cup {Specimen(t, Named("x")) : t \in OtherTypes}
    \cup {Specimen(<<"string">>, Located(keys)) : keys \in SUBSET LocationKeys}
    \cup {Specimen(<<"string">>, WithTag(FORM, <<"f">>, Located(keys))) :
              keys \in SUBSET LocationKeys}
    \cup {Specimen(t, WithTag(QUERY, <<"q">>, Described(Required(Named("x"))))) :
              t \in {<<"Status">>, <<"Leaf">>, <<"ptr", "Status">>, <<"Time">>,
                     <<"slice", "string">>}}
    \cup {Specimen(<<"string">>, tags) :
              tags \in {Required(Named("r")),
                        WithTag(VALIDATE, <<"min=1", "required">>, Named("r")),
                        WithTag(VALIDATE, <<"omitempty">>, Named("r")),
                        WithTag(JSON, <<"j", "omitempty">>, Described(Named("r"))),
                        WithTag(FORM, <<"f">>, Required(NoTags)),
                        WithTag(JSON, <<"j">>, Required(NoTags)),
                        Required(NoTags)}}
    \cup {[type |-> <<"string">>, exported |-> FALSE, tags |-> Named("u")]}
    \cup {Specimen(<<"ptr", "Time">>, WithTag(QUERY, <<"at">>, Named("at")))}

ExtraSpecimens ==
    <<Specimen(<<"string">>, Required(Named("p"))),
      Specimen(<<"Status">>, WithTag(DESCRIPTION, <<"other">>,
                                     WithTag(QUERY, <<"s">>, Named("s")))),
      Specimen(<<"Leaf">>, Required(WithTag(QUERY, <<"l">>, Named("l")))),
      Specimen(<<"string">>, WithTag(HEADER, <<"h">>, Required(Named("h"))))>>

\* the subsequences of q with at most n elements
RECURSIVE SubSeqsUpTo(_, _)
SubSeqsUpTo(q, n) ==
    IF n = 0 \/ q = <<>> THEN {<<>>}
    ELSE SubSeqsUpTo(Tail(q), n)
         \cup {<<Head(q)>> \o r : r \in SubSeqsUpTo(Tail(q), n - 1)}

RECURSIVE SeqsUpTo(_, _)
SeqsUpTo(S, n) ==
    IF n = 0 THEN {<<>>}
    ELSE LET shorter == SeqsUpTo(S, n - 1)
         IN  shorter \cup {Append(q, x) : q \in shorter, x \in S}

GoFieldName(i) == <<"F1", "F2", "F3", "F4", "F5">>[i]

\* the struct type Holder with the given fields
HolderOf(specimens) ==
    [i \in 1..Len(specimens) |->
        [name |-> GoFieldName(i), type |-> specimens[i].type,
         exported |-> specimens[i].exported, tags |-> specimens[i].tags]]

HolderShapes ==
    {HolderOf(<<first>> \o rest) :
        first \in FirstSpecimens, rest \in SubSeqsUpTo(ExtraSpecimens, MaxExtra)}

HolderRoutes ==
    {[model |-> <<"Holder">>, resp |-> NilType],
     [model |-> NilType, resp |-> <<"Holder">>]}

FixedRoutes ==
    {[model |-> m, resp |-> r] :
        m \in {NilType, <<"Leaf">>, <<"Node">>, <<"ptr", "Leaf">>, <<"Pair">>},
        r \in {NilType, <<"Leaf">>, <<"Node">>, <<"A">>, <<"ptr", "A">>, <<"Page">>}}

Idle ==
    /\ schemas = EmptyMap
    /\ customFuncs = EmptyMap
    /\ stack = <<>>
    /\ ret = NoRet
    /\ parameters = <<>>
    /\ pass = 0
    /\ firstDoc = NoDoc
    /\ probe = NoProbe

\* the machines beside the walker have not been used
NamesIdle ==
    /\ typeNames = <<>>
    /\ titles = <<>>

GroupsIdle ==
    /\ arrays = <<>>
    /\ groups = <<>>

StartIdle ==
    /\ subApps = {}
    /\ hooks = [before |-> FALSE, after |-> FALSE]
    /\ events = <<>>

SideIdle == NamesIdle /\ GroupsIdle /\ StartIdle

Init ==
    /\ \/ route \in HolderRoutes /\ holder \in HolderShapes
       \/ route \in FixedRoutes /\ holder = <<>>
    /\ Idle
    /\ SideIdle
    /\ pc = "idle"
    /\ path = <<>>
    /\ fixed = <<>>

Next ==
    \/ BuildOpenAPI
    \/ CallRequestComponent
    \/ CallResponseComponent
    \/ CallParameters
    \/ FinishPaths
    \/ GCNil
    \/ GCField
    \/ GCResume
    \/ GCFinish
    \/ SVDirect
    \/ SVEnum
    \/ SVDefault
    \/ RQNil
    \/ RQElem
    \/ RQItems
    \/ RQField
    \/ RQResume
    \/ RQFinish
    \/ RQElse
    \/ RSNil
    \/ RSElem
    \/ RSItems
    \/ RSField
    \/ RSResume
    \/ RSFinish
    \/ RSElse
    \/ GPNil
    \/ GPField
    \/ GPResume
    \/ GPFinish
    \/ StackOverflow
    \/ Validate

Spec == Init /\ [][Next]_vars

\* the route paths the router accepts: rooted, at most one ":" in a segment, and a
\* non-empty name after it
RouterPath(p) ==
    /\ Len(p) >= 1
    /\ p[1] = "/"
    /\ \A i \in 1..Len(p) :
          p[i] = ":" => /\ i < Len(p)
                        /\ p[i + 1] \notin {"/", ":"}
                        /\ \A j \in (i + 1)..Len(p) :
                              p[j] = ":" => \E k \in i..j : p[k] = "/"

\* fixPath on its own: every router path of up to MaxPathLen characters
InitPath ==
    /\ route = [model |-> NilType, resp |-> NilType]
    /\ holder = <<>>
    /\ Idle
    /\ SideIdle
    /\ pc = "path"
    /\ path \in {p \in SeqsUpTo(PathChars, MaxPathLen) : RouterPath(p)}
    /\ fixed = <<>>

NextPath == SetPath

SpecPath == InitPath /\ [][NextPath]_vars

----------------------------------------------------------------------------
(* removePackageName on its own *)

GenericContainers == {"Page", "List"}

\* the type arguments as reflect prints them: a package-qualified named type, or a
\* predeclared type
TypeArguments ==
    {<<pkg, ".", ty>> : pkg \in {"a", "b"}, ty \in {"Item", "User"}}
    \cup {<<"int">>, <<"string">>}

\* reflect.Type.Name of the instantiations of a generic container
InstantiationNames ==
    {<<c, "[">> \o arg \o <<"]">> : c \in GenericContainers, arg \in TypeArguments}

\* lines 449, 465, 547: the title of a type is removePackageName of its name
SetTitles ==
    /\ pc = "name"
    /\ titles' = <<removePackageName(typeNames[1]), removePackageName(typeNames[2])>>
    /\ pc' = "named"
    /\ UNCHANGED <<route, holder, schemas, customFuncs, stack, ret, parameters, pass,
                   firstDoc, probe, path, fixed, typeNames, groupVars, startVars>>

InitName ==
    /\ route = [model |-> NilType, resp |-> NilType]
    /\ holder = <<>>
    /\ Idle
    /\ path = <<>>
    /\ fixed = <<>>
    /\ pc = "name"
    /\ typeNames \in InstantiationNames \X InstantiationNames
    /\ titles = <<>>
    /\ GroupsIdle
    /\ StartIdle

NextName == SetTitles

SpecName == InitName /\ [][NextName]_vars

----------------------------------------------------------------------------
(* What the walker has emitted *)

\* the SchemaRef nodes inside a schema: properties, items, additionalProperties
RECURSIVE NodesIn(_)
NodesIn(s) ==
    IF s = NilSchema THEN {}
    ELSE LET direct == {s.props[k] : k \in DOMAIN s.props}
                       \cup (IF s.items # NoRef THEN {s.items} ELSE {})
                       \cup (IF s.addl.schema # NoRef THEN {s.addl.schema} ELSE {})
         IN  direct \cup UNION {NodesIn(n.value) : n \in direct}

\* every SchemaRef the walker holds: registry entries, parameter schemas, the results
\* being returned and the schemas under construction, with all they contain
EmittedNodes ==
    LET roots == {schemas[k] : k \in DOMAIN schemas}
                 \cup {parameters[i].schema : i \in 1..Len(parameters)}
        held == {stack[i].schema : i \in 1..Len(stack)}
                \cup {stack[i].fschema : i \in 1..Len(stack)}
                \cup {ret.schema}
    IN  roots \cup UNION {NodesIn(n.value) : n \in roots}
              \cup UNION {NodesIn(s) : s \in held}

\* the schemas that are complete: registered, returned, or nested in any schema
CompletedSchemas ==
    ({n.value : n \in EmittedNodes} \cup {ret.schema}) \ {NilSchema}

\* the schemas still being filled by a walker frame
SchemasUnderConstruction ==
    {stack[i].schema : i \in 1..Len(stack)} \ {NilSchema}

----------------------------------------------------------------------------
(* C1 *)

\* the struct types of the universe that reach themselves through their fields
CyclicTypes == {<<"Node">>, <<"A">>, <<"B">>}

\* the registry holds t's component, built from t's own fields, each a pure reference
RegisteredOnce(t) ==
    /\ t \in DOMAIN schemas
    /\ \A k \in DOMAIN schemas : schemas[k].value.title = t => k = t
    /\ \A i \in 1..Len(Fields(t)) :
          LET name == TagName(Fields(t)[i].tags, JSON)
          IN  /\ name \in DOMAIN schemas[t].value.props
              /\ schemas[t].value.props[name].ref # <<>>
              /\ schemas[t].value.props[name].value = NilSchema

\* C1: getComponentByModel on a structure that points to itself, or on two structures
\* that reference each other, terminates (the stack never overflows) and, once the
\* pass is done, has left exactly one registry entry per structure type, each such
\* field's property being a pure reference.
C1_CycleSafety ==
    /\ (stack # <<>> /\ stack[1].fn = "GC" /\ Deref(stack[1].arg) \in CyclicTypes)
          => pc # "overflow"
    /\ (pc = "done" /\ route.resp # NilType /\ Deref(route.resp) = <<"Node">>)
          => RegisteredOnce(<<"Node">>)
    /\ (pc = "done" /\ route.resp # NilType /\ Deref(route.resp) = <<"A">>)
          => RegisteredOnce(<<"A">>) /\ RegisteredOnce(<<"B">>)

----------------------------------------------------------------------------
(* C2 *)

HasLocation(tags) == \E k \in LocationKeys : HasTag(tags, k)

\* the location the priority query, path, header, cookie gives a field
FirstPriority(tags) ==
    CASE HasTag(tags, QUERY) -> [in |-> "query", name |-> TagName(tags, QUERY)]
      [] HasTag(tags, URI) -> [in |-> "path", name |-> TagName(tags, URI)]
      [] HasTag(tags, HEADER) -> [in |-> "header", name |-> TagName(tags, HEADER)]
      [] HasTag(tags, COOKIE) -> [in |-> "cookie", name |-> TagName(tags, COOKIE)]

\* getParametersByModel has returned for the route's model
ParametersDone == pc \in {"paths", "done"} /\ stack = <<>> /\ route.model # NilType

\* C2: getParametersByModel emits exactly one parameter per field that carries a
\* location annotation and none for the others, in field order, and the parameter's
\* location and name are those of the first annotation present in the priority query,
\* path, header, cookie.
C2_ParameterPrecedence ==
    ParametersDone =>
        LET located == SelectSeq(Fields(Deref(route.model)),
                                 LAMBDA f : HasLocation(f.tags))
        IN  /\ Len(parameters) = Len(located)
            /\ \A i \in 1..Len(located) :
                  /\ parameters[i].in = FirstPriority(located[i].tags).in
                  /\ parameters[i].name = FirstPriority(located[i].tags).name

----------------------------------------------------------------------------
(* C3 *)

\* C3: two passes over the same model, each into a fresh registry, give the same
\* document: the same registry titles, properties and required lists, the same enum
\* value lists and variant-name lists in the same order, the same parameters.
C3_SamePassSameDocument ==
    (pc = "done" /\ pass >= 2) => Document = firstDoc

----------------------------------------------------------------------------
(* C4 *)

\* the values of an enum type's name -> value mapping
EnumValues(b) == {Enums(b)[i].value : i \in 1..Len(Enums(b))}

\* C4: for every enumerable type, the derived schema's enum list is, as a set, the
\* values of the type's mapping; the schema is in the registry under the type's name
\* when the derivation returns; and the custom type func registered with the validator
\* accepts a runtime value, returning it in its typed form, exactly when it is one of
\* those values, and rejects (panics on) every other value.
C4_EnumRoundTrip ==
    /\ \A b \in EnumBases :
          <<b>> \in DOMAIN schemas =>
              /\ Range(schemas[<<b>>].value.enum) = EnumValues(b)
              /\ schemas[<<b>>].value.title = <<b>>
              /\ <<b>> \in DOMAIN customFuncs
    /\ ret.alias # <<>> =>
          /\ ret.alias \in DOMAIN schemas
          /\ schemas[ret.alias].value = ret.schema
          /\ Range(ret.schema.enum) = EnumValues(ret.alias[1])
    /\ probe # NoProbe =>
          /\ probe.out.result = "accepted" <=> probe.input \in EnumValues(probe.type[1])
          /\ probe.out.result = "accepted" => probe.out.value = probe.input
          /\ probe.out.result # "accepted" => probe.out.result = "panic"

\* a value outside the enum has been fed to the func registered for a derived enum
C4_Witness ==
    /\ probe # NoProbe
    /\ probe.type = <<"Status">>
    /\ probe.input = 3
    /\ probe.out.result = "panic"
    /\ <<"Status">> \in DOMAIN schemas
    /\ Len(schemas[<<"Status">>].value.enum) = 2

----------------------------------------------------------------------------
(* C5 *)

\* the field gets a property in the object schema the function builds
Participates(fn, isRequest, f) ==
    CASE fn = "GC" -> isRequest => HasTag(f.tags, FORM)
      [] fn = "RQ" -> HasTag(f.tags, FORM)
      [] fn = "RS" -> f.exported /\ HasTag(f.tags, JSON)

ResolvedName(fn, isRequest, f) ==
    CASE fn = "GC" -> FieldName(f, isRequest)
      [] fn = "RQ" -> TagName(f.tags, FORM)
      [] fn = "RS" -> TagName(f.tags, JSON)

\* the validation annotation contains the rule token "required"
HasRequiredToken(tags) == "required" \in Range(tags[VALIDATE])

\* the walker frames that have visited every field of their structure
VisitedStructs ==
    {i \in 1..Len(stack) :
        /\ stack[i].fn \in {"GC", "RQ", "RS"}
        /\ stack[i].pc = "loop"
        /\ Kind(stack[i].typ) = "struct"
        /\ stack[i].i > Len(Fields(stack[i].typ))}

\* C5: in every object schema synthesized for a structure by getComponentByModel,
\* getRequestSchemaByModel or getResponseSchemaByModel, the resolved name of each
\* participating field whose validation annotation contains the token "required" is
\* in the required list exactly once, and no other name is in it.
C5_Requiredness ==
    \A i \in VisitedStructs :
        LET fr == stack[i]
            fs == Fields(fr.typ)
            names == {ResolvedName(fr.fn, fr.req, fs[j]) :
                         j \in {k \in 1..Len(fs) : /\ Participates(fr.fn, fr.req, fs[k])
                                                   /\ HasRequiredToken(fs[k].tags)}}
        IN  \A n \in names \cup Range(fr.schema.required) :
                Count(fr.schema.required, n) = IF n \in names THEN 1 ELSE 0

----------------------------------------------------------------------------
(* C6 *)

\* C6: every schema node the walker emits (object properties, array items, parameter
\* schemas, registry entries, additionalProperties) and every parameter is either a
\* reference with a pointer and no inline content or inline content with no pointer.
C6_RefOrInline ==
    /\ \A n \in EmittedNodes : ~(n.ref # <<>> /\ n.value # NilSchema)
    /\ \A i \in 1..Len(parameters) : parameters[i].ref = <<>>

----------------------------------------------------------------------------
(* C7 *)

RequiredWithinProperties(s) == Range(s.required) \subseteq DOMAIN s.props

\* C7 as stated: in every reachable state, every object schema, the ones under
\* construction included, has only keys of its properties in its required list.
C7_RequiredSubsetAlways ==
    \A s \in CompletedSchemas \cup SchemasUnderConstruction : RequiredWithinProperties(s)

\* the schemas of the walker frames that are between two field visits
SchemasBetweenFields ==
    {stack[i].schema : i \in {j \in 1..Len(stack) : stack[j].pc = "loop"}} \ {NilSchema}

\* C7 as amended: every object schema that is complete (registered, returned, or
\* nested in another schema) or between two field visits has only keys of its
\* properties in its required list.
C7_RequiredSubsetCompleted ==
    \A s \in CompletedSchemas \cup SchemasBetweenFields : RequiredWithinProperties(s)

\* a registered component with a required property
C7_Witness ==
    \E k \in DOMAIN schemas :
        /\ schemas[k].value.required # <<>>
        /\ Range(schemas[k].value.required) \subseteq DOMAIN schemas[k].value.props
        /\ pc = "done"

----------------------------------------------------------------------------
(* C8 *)

\* a type the engine cannot represent: a kind outside the primitive, struct, slice,
\* map, pointer and interface kinds, or a named primitive type that is no enum
Unsupported(t) ==
    /\ t # NilType
    /\ \/ Kind(t) \notin PrimitiveKinds \cup {"struct", "slice", "map", "ptr", "interface"}
       \/ Kind(t) \in PrimitiveKinds /\ ~IsDirectType(t) /\ ~IsEnumAble(t)

\* C8: a kind that cannot be represented aborts synthesis at once: the Type
\* Classifier never hands a nil schema back to be stored, and the walker never goes on
\* walking a value of such a type.
C8_UnsupportedFailsFast ==
    /\ \A n \in EmittedNodes : ~(n.ref = <<>> /\ n.value = NilSchema)
    /\ \A i \in 1..Len(stack) :
          ~(stack[i].fn = "SV" /\ stack[i].pc = "tail" /\ Unsupported(stack[i].arg))

----------------------------------------------------------------------------
(* C9 *)

\* the end of the segment that starts at position i: the last character before the
\* next "/" (i - 1 when the segment is empty)
RECURSIVE SegmentEnd(_, _)
SegmentEnd(p, i) == IF i <= Len(p) /\ p[i] # "/" THEN SegmentEnd(p, i + 1) ELSE i - 1

\* every segment /:name, up to the next "/", becomes /{name}; all else is copied
RECURSIVE RewriteSegments(_, _)
RewriteSegments(p, i) ==
    IF i > Len(p) THEN <<>>
    ELSE IF p[i] = "/" /\ i + 2 <= Len(p) /\ p[i + 1] = ":" /\ p[i + 2] # "/"
    THEN LET e == SegmentEnd(p, i + 2)
         IN  <<"/", "{">> \o SubSeq(p, i + 2, e) \o <<"}">> \o RewriteSegments(p, e + 1)
    ELSE <<p[i]>> \o RewriteSegments(p, i + 1)

\* C9: fixPath rewrites every positional segment /:name of the path, as a whole, to
\* /{name} and leaves all other characters unchanged.
C9_PathRewriting ==
    pc = "pathset" => fixed = RewriteSegments(path, 1)

----------------------------------------------------------------------------
(* C10 *)

\* the schema type, format and minimum the primitive mapping gives a kind
PrimitiveMapping(k) ==
    CASE k \in {"int8", "int16", "int"} -> [typ |-> "integer", format |-> "", min |-> NoMin]
      [] k \in {"uint8", "uint16", "uint"} -> [typ |-> "integer", format |-> "", min |-> "0"]
      [] k = "int32" -> [typ |-> "integer", format |-> "int32", min |-> NoMin]
      [] k = "uint32" -> [typ |-> "integer", format |-> "int32", min |-> "0"]
      [] k = "int64" -> [typ |-> "integer", format |-> "int64", min |-> NoMin]
      [] k = "uint64" -> [typ |-> "integer", format |-> "int64", min |-> "0"]
      [] k = "float32" -> [typ |-> "number", format |-> "float", min |-> NoMin]
      [] k = "float64" -> [typ |-> "number", format |-> "double", min |-> NoMin]
      [] k = "string" -> [typ |-> "string", format |-> "", min |-> NoMin]
      [] k = "bool" -> [typ |-> "boolean", format |-> "", min |-> NoMin]

Facets(s) == [typ |-> s.typ, format |-> s.format, min |-> s.min]

\* the names field i of Holder can be stored under that no other field can be
OwnNames(i) ==
    LET namesOf(f) == {FieldName(f, r) : r \in {r \in BOOLEAN : Participates("GC", r, f)}}
    IN  namesOf(holder[i]) \ UNION {namesOf(holder[j]) : j \in (1..Len(holder)) \ {i}}

\* C10: for every primitive kind the value-based path (a field of that type) and the
\* kind-based classifier (a map field with that value type) give the same schema, the
\* one of the primitive mapping: integer for 8/16 bit and platform-width integers,
\* int32 and int64 formats for the 32 and 64 bit ones, minimum 0 exactly when
\* unsigned, number/float, number/double, string, boolean.
C10_PrimitiveMapping ==
    \A c \in DOMAIN schemas, i \in 1..Len(holder) :
        (c = <<"Holder">>) =>
            \A n \in OwnNames(i) \cap DOMAIN schemas[c].value.props :
                LET t == holder[i].type
                    property == schemas[c].value.props[n].value
                IN  /\ (Len(t) = 1 /\ t[1] \in PrimitiveKinds)
                          => Facets(property) = PrimitiveMapping(t[1])
                    /\ (Len(t) = 2 /\ t[1] = "map" /\ t[2] \in PrimitiveKinds)
                          => /\ property.typ = "object"
                             /\ property.addl.schema.ref = <<>>
                             /\ Facets(property.addl.schema.value) = PrimitiveMapping(t[2])

\* an 8 bit unsigned field has been given its integer schema with minimum 0
C10_Witness ==
    /\ pc = "done"
    /\ Len(holder) = 1
    /\ holder[1].type = <<"uint8">>
    /\ <<"Holder">> \in DOMAIN schemas
    /\ "p" \in DOMAIN schemas[<<"Holder">>].value.props
    /\ schemas[<<"Holder">>].value.props["p"].value.min = "0"

----------------------------------------------------------------------------
(* C11 *)

\* the component registered for Holder, when there is one
HolderRegistered == <<"Holder">> \in DOMAIN schemas

HolderProps == schemas[<<"Holder">>].value.props

\* C11: a mapping-typed field of a registered structure is an object schema whose
\* additionalProperties is the unconstrained marker when the value type is an
\* interface, a pure reference to the registered component when it is a structure,
\* and otherwise a present, non-nil inline schema (the primitive one when the value
\* type's kind is primitive).
C11_MappingRule ==
    HolderRegistered =>
        \A i \in 1..Len(holder) :
            \A n \in OwnNames(i) \cap DOMAIN HolderProps :
                LET t == Deref(holder[i].type)
                    property == HolderProps[n]
                    ap == property.value.addl
                IN  Kind(t) = "map" =>
                        /\ property.ref = <<>>
                        /\ property.value.typ = "object"
                        /\ CASE Kind(Elem(t)) = "interface" ->
                                    ap.has /\ ap.schema = NoRef
                             [] Kind(Elem(t)) = "struct" ->
                                    /\ ~ap.has
                                    /\ ap.schema = NewSchemaRef(
                                           generateRefName(TypeName(Elem(t))), NilSchema)
                                    /\ TypeName(Elem(t)) \in DOMAIN schemas
                             [] OTHER ->
                                    /\ ~ap.has
                                    /\ ap.schema # NoRef
                                    /\ ap.schema.ref = <<>>
                                    /\ ap.schema.value # NilSchema
                                    /\ Kind(Elem(t)) \in PrimitiveKinds =>
                                           Facets(ap.schema.value)
                                               = PrimitiveMapping(Kind(Elem(t)))

----------------------------------------------------------------------------
(* C12 *)

\* the field is typed as a structure other than the time-like one
NestedStruct(f) ==
    /\ Kind(Deref(f.type)) = "struct"
    /\ TypeName(Deref(f.type)) # <<"Time">>

\* the fields of frame fr that getComponentByModel has already given a property,
\* under a name no other field of the structure can be stored under
SettledFields(fr) ==
    LET fs == Fields(fr.typ)
        nameOf(j) == FieldName(fs[j], fr.req)
        taking == {j \in 1..Len(fs) : Participates("GC", fr.req, fs[j])}
    IN  {j \in taking : /\ j < fr.i
                        /\ \A k \in taking \ {j} : nameOf(k) # nameOf(j)}

\* C12: in getComponentByModel a field typed as a nested structure (not time-like)
\* has a property that is a reference and carries no inline schema, and the nested
\* type is derived only while the registry has no entry under its canonical title
\* (so a nested type, a generic one included, is not derived again once registered).
C12_NestedRegisteredOnce ==
    \A k \in 1..Len(stack) :
        stack[k].fn = "GC" =>
            /\ \A j \in SettledFields(stack[k]) :
                  LET f == Fields(stack[k].typ)[j]
                  IN  NestedStruct(f) =>
                          stack[k].schema.props[FieldName(f, stack[k].req)]
                              = NewSchemaRef(generateRefName(TypeName(Deref(f.type))),
                                             NilSchema)
            /\ (stack[k].pc = "struct" /\ k < Len(stack)) =>
                  removePackageName(TypeName(stack[k + 1].typ)) \notin DOMAIN schemas

----------------------------------------------------------------------------
(* C13 *)

\* every SchemaRef of the finished document
DocumentNodes ==
    LET roots == {Document.schemas[k] : k \in DOMAIN Document.schemas}
                 \cup {Document.parameters[i].schema : i \in 1..Len(Document.parameters)}
                 \cup ({Document.requestBody} \ {NoRef})
                 \cup Range(Document.responses)
    IN  roots \cup UNION {NodesIn(n.value) : n \in roots}

\* the pointer names a registered component
Resolves(ref) ==
    \E title \in DOMAIN Document.schemas : ref = generateRefName(title)

\* C13: once BuildOpenAPI has completed, every reference pointer of the document
\* (properties, items, additionalProperties, parameters, request body, responses)
\* is "#/components/schemas/T" for a key T of components.schemas.
C13_ReferentialIntegrity ==
    pc = "done" =>
        /\ \A n \in DocumentNodes : n.ref # <<>> => Resolves(n.ref)
        /\ \A i \in 1..Len(Document.parameters) :
              Document.parameters[i].ref # <<>> => Resolves(Document.parameters[i].ref)

----------------------------------------------------------------------------
(* C14 *)

\* the traversal of the frame is the inbound (request) one
Inbound(fr) == fr.fn = "RQ" \/ (fr.fn = "GC" /\ fr.req)

\* the fields the rule selects: inbound the ones with the binding annotation,
\* outbound the exported ones with the serialized-name annotation
Selected(fr, f) ==
    IF Inbound(fr) THEN HasTag(f.tags, FORM)
    ELSE f.exported /\ HasTag(f.tags, JSON)

SelectedName(fr, f) ==
    IF Inbound(fr) THEN TagName(f.tags, FORM) ELSE TagName(f.tags, JSON)

\* C14: when getComponentByModel, getRequestSchemaByModel or getResponseSchemaByModel
\* has visited every field of a structure, the properties of the object are exactly
\* the names of the selected fields: inbound the binding annotation's name of every
\* field that has one, outbound the serialized-name annotation's name of every
\* exported field that has one; no other field contributes a property.
C14_FieldSelection ==
    \A i \in VisitedStructs :
        LET fr == stack[i]
            fs == Fields(fr.typ)
        IN  DOMAIN fr.schema.props
                = {SelectedName(fr, fs[j]) :
                       j \in {k \in 1..Len(fs) : Selected(fr, fs[k])}}

----------------------------------------------------------------------------
(* C15 *)

\* C15: the title removePackageName gives an instantiated generic container has no
\* package qualifier left, two different instantiations (different type arguments,
\* same-named types of different packages and predeclared types included) get
\* different titles, and the same instantiation gets the same title.
C15_CanonicalNaming ==
    pc = "named" =>
        /\ \A i \in 1..2 : "." \notin Range(titles[i])
        /\ typeNames[1] # typeNames[2] => titles[1] # titles[2]
        /\ typeNames[1] = typeNames[2] => titles[1] = titles[2]

----------------------------------------------------------------------------
(* C16 *)

\* C16: the enum schema registered in the component registry under an enum's name
\* never carries a description or default taken from a field of that enum type.
C16_EnumNotOverwritten ==
    \A b \in EnumBases :
        <<b>> \in DOMAIN schemas =>
            /\ schemas[<<b>>].value.desc = ""
            /\ schemas[<<b>>].value.default = ""

----------------------------------------------------------------------------
(* C17 *)

\* the field's type is time.Time, held by value or through a pointer
TimeLike(f) == Deref(f.type) = <<"Time">>

\* the inline string schema with date-time format, and nothing else
IsDateTime(node) ==
    /\ node.ref = <<>>
    /\ node.value # NilSchema
    /\ node.value.typ = "string"
    /\ node.value.format = "date-time"
    /\ node.value.props = EmptyMap

\* the fields of a walker frame that have their property, under a name no other
\* field of the structure is stored under
PropertyFields(fr) ==
    LET fs == Fields(fr.typ)
        taking == {j \in 1..Len(fs) : Participates(fr.fn, fr.req, fs[j])}
    IN  {j \in taking :
            /\ j < fr.i
            /\ \A k \in taking \ {j} :
                  ResolvedName(fr.fn, fr.req, fs[k]) # ResolvedName(fr.fn, fr.req, fs[j])}

\* the fields of the route's model that get a parameter, in order
ParameterFields ==
    LET fs == Fields(Deref(route.model))
    IN  SelectSeq(fs, LAMBDA f : HasLocation(f.tags))

\* C17: a field of type time.Time, by value or through a pointer, inbound or
\* outbound, as a property or as a parameter, is the inline string schema with
\* date-time format; while it is visited time.Time is not walked as a structure; it is
\* never in the component registry; and a field of any other structure type does not
\* get the date-time format.
C17_TimeLike ==
    /\ <<"Time">> \notin DOMAIN schemas
    /\ \A k \in 1..Len(stack) :
          LET fr == stack[k]
              fs == Fields(fr.typ)
          IN  fr.fn \in {"GC", "RQ", "RS"} =>
                  /\ \A j \in PropertyFields(fr) :
                        LET node == fr.schema.props[ResolvedName(fr.fn, fr.req, fs[j])]
                        IN  /\ TimeLike(fs[j]) => IsDateTime(node)
                            /\ (Kind(Deref(fs[j].type)) = "struct" /\ ~TimeLike(fs[j])
                                /\ node.value # NilSchema)
                                  => node.value.format # "date-time"
                  /\ (fr.i <= Len(fs) /\ TimeLike(fs[fr.i])) =>
                        \A m \in (k + 1)..Len(stack) :
                            ~(stack[m].fn \in {"GC", "RQ", "RS"}
                              /\ Deref(stack[m].arg) = <<"Time">>)
    /\ \A k \in 1..Len(parameters) :
          (k <= Len(ParameterFields) /\ TimeLike(ParameterFields[k]))
              => IsDateTime(parameters[k].schema)

----------------------------------------------------------------------------
(* C18 *)

\* The models are given as zero values (Holder{}, (*Leaf)(nil)), so every pointer the
\* walker meets, as a model or in a field, is nil.

\* the component of Leaf{}, the same in inbound and outbound traversal
LeafComponent ==
    [NewObjectSchema EXCEPT
        !.title = <<"Leaf">>,
        !.required = <<"name">>,
        !.props = ("name" :> NewSchemaRef(<<>>, [NewStringSchema EXCEPT
                                                     !.desc = "leaf name"]))]

\* the process has failed
Failed == pc \in {"panic", "overflow"}

\* the top-level calls of getPaths made so far have returned
Returned(at) == pc \in at /\ stack = <<>>

\* C18: getParametersByModel on a nil model returns the empty list;
\* getComponentByModel on a nil model leaves the registry as it is; a nil pointer as
\* the route's model or as a field is walked as the zero value of its pointee, so the
\* component registered for *Leaf, and the property of a *Leaf, *string or *time.Time
\* field, are those of the value type; and no panic comes from the pointer being nil
\* (the only panic on a pointer value is the one NewEnumSchema raises for the pointer
\* kind, nil or not).
C18_NilNeverFails ==
    /\ route.model = NilType =>
          /\ Returned({"paths", "done"}) => parameters = <<>>
          /\ Returned({"response"}) => schemas = EmptyMap
          /\ route.resp = NilType => schemas = EmptyMap /\ ~Failed
    /\ (Deref(route.model) = <<"Leaf">> /\ route.resp = NilType) =>
          /\ ~Failed
          /\ Returned({"response", "parameters", "paths", "done"}) =>
                schemas = (<<"Leaf">> :> NewSchemaRef(<<>>, LeafComponent))
    /\ (Len(holder) = 1
        /\ holder[1].type \in {<<"ptr", "Leaf">>, <<"ptr", "string">>, <<"ptr", "Time">>})
          => ~Failed
    /\ HolderRegistered =>
          \A i \in 1..Len(holder) :
              \A n \in OwnNames(i) \cap DOMAIN HolderProps :
                  LET f == holder[i]
                  IN  /\ Deref(f.type) = <<"Leaf">> =>
                            /\ HolderProps[n]
                                   = NewSchemaRef(generateRefName(<<"Leaf">>), NilSchema)
                            /\ <<"Leaf">> \in DOMAIN schemas
                            /\ schemas[<<"Leaf">>].value = LeafComponent
                      /\ Deref(f.type) = <<"string">> =>
                            HolderProps[n]
                                = NewSchemaRef(<<>>, ApplyDefault(ApplyDescription(
                                      NewStringSchema, f.tags), f.tags))
                      /\ Deref(f.type) = <<"Time">> => IsDateTime(HolderProps[n])
    /\ (pc = "panic" /\ stack # <<>> /\ Top.fn = "SV" /\ Top.arg # NilType
        /\ Kind(Top.arg) = "ptr")
          => IsEnumAble(Top.arg) /\ "ptr" \notin EnumKinds

\* the route's model is a nil *Leaf and its document is complete
C18_Witness ==
    /\ pc = "done"
    /\ route.model = <<"ptr", "Leaf">>
    /\ route.resp = NilType
    /\ <<"Leaf">> \in DOMAIN schemas
    /\ parameters = <<>>

----------------------------------------------------------------------------
(* group.go: groups, their options, and the slices they share *)

MaxGroups == 3

MaxOptions == 3

\* a slice value: the address of its backing array (0 for a nil slice) and its length;
\* no slice of a group is ever re-sliced, so every one starts at the array's first cell
NilSlice == [arr |-> 0, len |-> 0]

Cap(heap, s) == IF s.arr = 0 THEN 0 ELSE Len(heap[s.arr])

\* the elements a slice shows
Contents(heap, s) == IF s.arr = 0 THEN <<>> ELSE SubSeq(heap[s.arr], 1, s.len)

\* the capacity append allocates when the backing array is too small: the runtime
\* doubles a small capacity, and takes the needed length when doubling is not enough
growslice(oldCap, needed) == IF needed > 2 * oldCap THEN needed ELSE 2 * oldCap

\* Go's append(s, xs...): in place when the backing array has room, else into a new
\* array; gives the heap and the slice after it
append(heap, s, xs) ==
    LET needed == s.len + Len(xs)
    IN  IF needed <= Cap(heap, s)
        THEN [heap  |-> [heap EXCEPT ![s.arr] =
                            [i \in 1..Len(@) |->
                                IF i > s.len /\ i <= needed THEN xs[i - s.len] ELSE @[i]]],
              slice |-> [arr |-> s.arr, len |-> needed]]
        ELSE LET newCap == growslice(Cap(heap, s), needed)
                 cells  == [i \in 1..newCap |->
                               IF i <= s.len THEN heap[s.arr][i]
                               ELSE IF i <= needed THEN xs[i - s.len]
                               ELSE 0]
             IN  [heap  |-> Append(heap, cells),
                  slice |-> [arr |-> Len(heap) + 1, len |-> needed]]

\* the variadic argument of an option: a slice of its own
Variadic(heap, xs) ==
    [heap  |-> Append(heap, xs),
     slice |-> [arr |-> Len(heap) + 1, len |-> Len(xs)]]

\* the element the options of group g carry: each group adds a tag, a handler or a
\* security of its own
OwnElement(g) == g

\* lines 13-20: a Group; parent is 0 for a group made by SwaGin.Group, options counts
\* the options its constructor has applied
Group(parent, tags, handlers, securities) ==
    [parent |-> parent, Tags |-> tags, Handlers |-> handlers,
     Securities |-> securities, options |-> 0]

\* the group whose constructor is in its options loop
Newest == Len(groups)

WalkerIdle ==
    /\ route = [model |-> NilType, resp |-> NilType]
    /\ holder = <<>>
    /\ Idle
    /\ path = <<>>
    /\ fixed = <<>>
    /\ NamesIdle

GroupFrame ==
    UNCHANGED <<route, holder, schemas, customFuncs, stack, ret, pc, parameters, pass,
                firstDoc, probe, path, fixed, nameVars, startVars>>

\* swagin.go lines 90-101: a group of the application, its three slices nil
SwaGinGroup ==
    /\ pc = "groups"
    /\ Len(groups) < MaxGroups
    /\ groups' = Append(groups, Group(0, NilSlice, NilSlice, NilSlice))
    /\ UNCHANGED arrays
    /\ GroupFrame

\* group.go lines 86-94: a sub-group of g takes g's three slices as they are
GroupGroup ==
    /\ pc = "groups"
    /\ Len(groups) < MaxGroups
    /\ \E g \in 1..Len(groups) :
          groups' = Append(groups, Group(g, groups[g].Tags, groups[g].Handlers,
                                         groups[g].Securities))
    /\ UNCHANGED arrays
    /\ GroupFrame

\* lines 95-97: the constructor applies one more option to the group it is building
ApplyingOption ==
    /\ pc = "groups"
    /\ Newest >= 1
    /\ groups[Newest].options < MaxOptions

\* lines 30-38
Tags ==
    /\ ApplyingOption
    /\ LET g     == groups[Newest]
           tags  == <<OwnElement(Newest)>>
           after == IF g.Tags = NilSlice
                    THEN Variadic(arrays, tags)
                    ELSE append(arrays, g.Tags, tags)
       IN  /\ arrays' = after.heap
           /\ groups' = [groups EXCEPT ![Newest] =
                            [g EXCEPT !.Tags = after.slice, !.options = @ + 1]]
    /\ GroupFrame

\* lines 24-28
Handlers ==
    /\ ApplyingOption
    /\ LET g     == groups[Newest]
           after == append(arrays, g.Handlers, <<OwnElement(Newest)>>)
       IN  /\ arrays' = after.heap
           /\ groups' = [groups EXCEPT ![Newest] =
                            [g EXCEPT !.Handlers = after.slice, !.options = @ + 1]]
    /\ GroupFrame

\* lines 40-44
Security ==
    /\ ApplyingOption
    /\ LET g     == groups[Newest]
           after == append(arrays, g.Securities, <<OwnElement(Newest)>>)
       IN  /\ arrays' = after.heap
           /\ groups' = [groups EXCEPT ![Newest] =
                            [g EXCEPT !.Securities = after.slice, !.options = @ + 1]]
    /\ GroupFrame

InitGroup ==
    /\ WalkerIdle
    /\ StartIdle
    /\ pc = "groups"
    /\ arrays = <<>>
    /\ groups = <<>>

NextGroup ==
    \/ SwaGinGroup
    \/ GroupGroup
    \/ Tags
    \/ Handlers
    \/ Security

SpecGroup == InitGroup /\ [][NextGroup]_vars

\* what a group shows of its three slices
Shown(heap, g) ==
    [Tags       |-> Contents(heap, g.Tags),
     Handlers   |-> Contents(heap, g.Handlers),
     Securities |-> Contents(heap, g.Securities)]

\* g is the parent of group n, or another sub-group of n's parent
ParentOrSibling(all, g, n) ==
    /\ g # n
    /\ all[n].parent # 0
    /\ \/ g = all[n].parent
       \/ all[g].parent = all[n].parent

\* C19: creating a sub-group and applying Tags, Handlers or Security options to it
\* never changes the Tags, Handlers or Securities of its parent group or of any
\* other sub-group created from the same parent
C19_GroupIsolation ==
    [][\A g \in 1..Len(groups) :
          ParentOrSibling(groups', g, Len(groups'))
              => Shown(arrays', groups'[g]) = Shown(arrays, groups[g])]_vars

----------------------------------------------------------------------------
(* swagin.go: mounting applications and starting the root application *)

MaxApps == 3

\* the root application, built by New with a Swagger, and the applications that can be
\* mounted on it, each at a path of its own
Root == 0

Apps == 1..MaxApps

\* one thing start-up has done
Event(what, app) == [what |-> what, app |-> app]

\* lines 151-200: init registers the application's routes on the engine (initRouters
\* and the three documentation routes) and then builds its document
init(app) == <<Event("routes", app), Event("document", app)>>

\* the orders in which a range over the map subApps can visit it
SubAppOrders(S) ==
    {order \in [1..Cardinality(S) -> S] :
        \A i, j \in 1..Cardinality(S) : i # j => order[i] # order[j]}

RECURSIVE InitAll(_, _)
\* lines 232-234, 262-264: init of every application in the order of the range
InitAll(order, i) ==
    IF i > Len(order) THEN <<>> ELSE init(order[i]) \o InitAll(order, i + 1)

StartFrame ==
    UNCHANGED <<route, holder, schemas, customFuncs, stack, ret, parameters, pass,
                firstDoc, probe, path, fixed, nameVars, groupVars>>

\* lines 74-84: the application is entered in subApps under its path
Mount ==
    /\ pc = "start"
    /\ \E app \in Apps \ subApps : subApps' = subApps \cup {app}
    /\ UNCHANGED <<pc, hooks, events>>
    /\ StartFrame

\* lines 241-243
BeforeInit ==
    /\ pc = "start"
    /\ ~hooks.before
    /\ hooks' = [hooks EXCEPT !.before = TRUE]
    /\ UNCHANGED <<pc, subApps, events>>
    /\ StartFrame

\* lines 245-247
AfterInit ==
    /\ pc = "start"
    /\ ~hooks.after
    /\ hooks' = [hooks EXCEPT !.after = TRUE]
    /\ UNCHANGED <<pc, subApps, events>>
    /\ StartFrame

\* lines 230-235: init of the root, then of every mounted application; nothing is served
StartInit ==
    /\ pc = "start"
    /\ \E order \in SubAppOrders(subApps) :
          events' = events \o init(Root) \o InitAll(order, 1)
    /\ pc' = "Init"
    /\ UNCHANGED <<subApps, hooks>>
    /\ StartFrame

\* lines 249-258: the hooks around init of the root, then the engine serves
Run ==
    /\ pc = "start"
    /\ events' = events
                 \o (IF hooks.before THEN <<Event("beforeInitFunc", Root)>> ELSE <<>>)
                 \o init(Root)
                 \o (IF hooks.after THEN <<Event("afterInitFunc", Root)>> ELSE <<>>)
                 \o <<Event("serve", Root)>>
    /\ pc' = "Run"
    /\ UNCHANGED <<subApps, hooks>>
    /\ StartFrame

\* lines 260-284: init of the root and of every mounted application, then the server
\* is started
StartGraceful ==
    /\ pc = "start"
    /\ \E order \in SubAppOrders(subApps) :
          events' = events \o init(Root) \o InitAll(order, 1) \o <<Event("serve", Root)>>
    /\ pc' = "StartGraceful"
    /\ UNCHANGED <<subApps, hooks>>
    /\ StartFrame

InitStart ==
    /\ WalkerIdle
    /\ GroupsIdle
    /\ pc = "start"
    /\ subApps = {}
    /\ hooks = [before |-> FALSE, after |-> FALSE]
    /\ events = <<>>

NextStart ==
    \/ Mount
    \/ BeforeInit
    \/ AfterInit
    \/ StartInit
    \/ Run
    \/ StartGraceful

SpecStart == InitStart /\ [][NextStart]_vars

\* the positions of an event in what start-up has done
Positions(e) == {i \in 1..Len(events) : events[i] = e}

\* every event of E has happened before position i
AllBefore(E, i) == \A e \in E : \E j \in Positions(e) : j < i

\* the initialisation the start operation owes: routes and document of the root and
\* of every mounted application
Initialisation ==
    {Event(what, app) : what \in {"routes", "document"}, app \in {Root} \cup subApps}

\* C20: whichever start operation is used, the root application and every mounted
\* application have been initialised (routes registered, document built) before the
\* server begins serving; for Run, the before-init hook runs before and the
\* after-init hook runs after that initialisation
C20_StartupOrdering ==
    /\ \A i \in Positions(Event("serve", Root)) : AllBefore(Initialisation, i)
    /\ pc = "Run" =>
          /\ \A b \in Positions(Event("beforeInitFunc", Root)) :
                \A e \in Initialisation : \A j \in Positions(e) : b < j
          /\ \A a \in Positions(Event("afterInitFunc", Root)) :
                AllBefore(Initialisation, a)

====
